---- MODULE Spec2Model ----
(***************************************************************************)
(* A model of lark/visitors.py: the Transformer family (copy, in-place,    *)
(* in-place recursive, chain), the Visitor family, the Interpreter and the *)
(* class-level decorator.                                                  *)
(*                                                                         *)
(* Trees live in a heap (object identity matters for the in-place          *)
(* variants).  Every entry point is one action; its body is the recursive  *)
(* computation of the code, threading the heap and the log of handler      *)
(* invocations.                                                            *)
(***************************************************************************)
EXTENDS Integers, Sequences, FiniteSets, TLC

VARIABLES heap, orig, calls, out, op, klass

vars == <<heap, orig, calls, out, op, klass>>

\* The largest number of items (Tree nodes and leaves) of an input tree.
MaxNodes == 4

\* The largest number of items of a tree given to a chain.
MaxChainNodes == 3

\* The largest number of transformers a chain is built from.
MaxChain == 3

(***************************************************************************)
(* Values.  A value is a reference to a Tree of the heap, a leaf (token),  *)
(* a value built by a user handler (a free term over its arguments), a     *)
(* list, or an exception.  All share one record shape.                     *)
(***************************************************************************)
TreeRef(n) == [k |-> "tree", id |-> n, f |-> "", args |-> <<>>]

Leaf(v) == [k |-> "tok", id |-> v, f |-> "", args |-> <<>>]

Term(f, args, meta) == [k |-> "val", id |-> meta, f |-> f, args |-> args]

List(args) == [k |-> "list", id |-> 0, f |-> "", args |-> args]

Exc(name) == [k |-> "exc", id |-> 0, f |-> name, args |-> <<>>]

None == [k |-> "none", id |-> 0, f |-> "", args |-> <<>>]

\* isinstance(c, Tree)
IsTree(c) == c.k = "tree"

\* Outcomes of a call: a returned value, a raised Discard, another exception.
Ret(st, v) == [st |-> st, k |-> "ret", v |-> v]

RaiseDiscard(st) == [st |-> st, k |-> "Discard", v |-> Exc("Discard")]

Raise(st, name) == [st |-> st, k |-> "error", v |-> Exc(name)]

\* Tree(data, children, meta): a new object on the heap.
NewId(h) == 1 + CHOOSE m \in DOMAIN h : \A j \in DOMAIN h : j <= m

Alloc(h, n, data, children, meta) ==
    [j \in DOMAIN h \cup {n} |->
        IF j = n THEN [data |-> data, children |-> children, meta |-> meta]
        ELSE h[j]]

\* subtree.children = children
SetChildren(h, n, children) == [h EXCEPT ![n].children = children]

\* A dispatch, as the holder observes it: the tag, the children and the
\* metadata given, the attribute invoked and how the invocation ended.
Call(data, children, meta, how, res) ==
    [data |-> data, children |-> children, meta |-> meta, how |-> how,
     res |-> res]

\* The outcome r of an invocation, without the state.
Res(r) == [k |-> r.k, v |-> r.v]

Pending == [k |-> "none", v |-> None]

Log(st, c) == [st EXCEPT !.calls = Append(st.calls, c)]

(***************************************************************************)
(* Handler holders.  `self` is [cls, handlers]: the strategy class the     *)
(* holder instantiates and the tag-named methods its class defines.        *)
(* getattr(self, data) finds a user handler or a method of the framework   *)
(* class itself.                                                           *)
(***************************************************************************)
\* Methods of the Transformer classes that getattr finds under a tag of the
\* same name (transform stands for them).
TransformerAttrs == {"transform"}

\* The handlers of the holder class used here:
\*     def b(self, children): return ('b', children)
\*     def c(self, children): raise Discard
\*     @visitor_args(meta=True)
\*     def m(self, children, meta): return ('m', children, meta)
\*     @visitor_args(inline=True)
\*     def i(self, x): return x
UserHandlers == {"b", "c", "m", "i"}

NoHandlers == {}

\* A second holder class:
\*     def a(self, children): return Tree('b', children)
RenameHandlers == {"a"}

Holder(cls, handlers) ==
    [cls |-> cls, handlers |-> handlers, transformers |-> <<>>]

\* try: f = getattr(self, data) / except AttributeError
HasAttr(self, data) == data \in self.handlers \cup TransformerAttrs

\* getattr(f, 'meta', False), set by _visitor_args_func_dec
AttrMeta(self, data) == data \in self.handlers /\ data = "m"

\* getattr(f, 'inline', False), set by _visitor_args_func_dec
AttrInline(self, data) == data \in self.handlers /\ data = "i"

\* Transformer.__default__: Tree(data, children, meta)
Transformer_default(st, data, children, meta) ==
    LET n == NewId(st.heap)
    IN  Ret([st EXCEPT !.heap = Alloc(@, n, data, children, meta)], TreeRef(n))

\* f(*args) for the attribute f found under the name data; args are the
\* positional arguments after self.
CallAttr(st, data, args) ==
    CASE data = "b" ->
           IF Len(args) = 1 THEN Ret(st, Term("b", args[1], 0))
           ELSE Raise(st, "TypeError")
      [] data = "c" ->
           IF Len(args) = 1 THEN RaiseDiscard(st)
           ELSE Raise(st, "TypeError")
      [] data = "m" ->
           IF Len(args) = 2 THEN Ret(st, Term("m", args[1], args[2]))
           ELSE Raise(st, "TypeError")
      [] data = "i" ->
           IF Len(args) = 1 THEN Ret(st, args[1])
           ELSE Raise(st, "TypeError")
      [] data = "a" ->
           IF Len(args) = 1
           THEN LET n == NewId(st.heap)
                IN  Ret([st EXCEPT !.heap = Alloc(@, n, "b", args[1], 0)],
                        TreeRef(n))
           ELSE Raise(st, "TypeError")
      [] OTHER ->
           \* self.transform(children): a list has no attribute children
           Raise(st, "AttributeError")

\* Transformer._call_userfunc
Transformer_call_userfunc(self, st, data, children, meta) ==
    LET r == IF ~HasAttr(self, data)
             THEN Transformer_default(st, data, children, meta)
             ELSE IF AttrMeta(self, data)
             THEN CallAttr(st, data, <<children, meta>>)
             ELSE IF AttrInline(self, data)
             THEN CallAttr(st, data, children)
             ELSE CallAttr(st, data, <<children>>)
        how == IF HasAttr(self, data) THEN data ELSE "__default__"
    IN  [r EXCEPT !.st = Log(@, Call(data, children, meta, how, Res(r)))]

(***************************************************************************)
(* The transforms.  st is [heap, calls].                                   *)
(***************************************************************************)
RECURSIVE Transformer_transform_tree(_, _, _)
RECURSIVE Transformer_transform_children(_, _, _, _, _)

\* Transformer._transform_children without its try/except: Discard leaves
\* the generator.
Transformer_transform_children_no_except(self, st, children, i, acc) ==
    IF i > Len(children) THEN Ret(st, acc)
    ELSE LET c == children[i]
         IN  IF IsTree(c)
             THEN LET r == Transformer_transform_tree(self, st, c.id)
                  IN  IF r.k = "ret"
                      THEN Transformer_transform_children(
                               self, r.st, children, i + 1, Append(acc, r.v))
                      ELSE r
             ELSE Transformer_transform_children(
                      self, st, children, i + 1, Append(acc, c))

\* Transformer._transform_children, a generator consumed by list(): i is the
\* position of the for loop and acc the values yielded so far.
Transformer_transform_children(self, st, children, i, acc) ==
    IF i > Len(children) THEN Ret(st, acc)
    ELSE LET c == children[i]
         IN  IF IsTree(c)
             THEN LET r == Transformer_transform_tree(self, st, c.id)
                  IN  CASE r.k = "ret" ->
                             Transformer_transform_children(
                                 self, r.st, children, i + 1, Append(acc, r.v))
                        [] r.k = "Discard" ->
                             Transformer_transform_children(
                                 self, r.st, children, i + 1, acc)
                        [] OTHER -> r
             ELSE Transformer_transform_children(
                      self, st, children, i + 1, Append(acc, c))

\* Transformer._transform_tree assigning the reduced children to the tree.
Transformer_transform_tree_assigning(self, st, n) ==
    LET r == Transformer_transform_children(
                 self, st, st.heap[n].children, 1, <<>>)
    IN  IF r.k # "ret" THEN r
        ELSE Transformer_call_userfunc(
                 self, [r.st EXCEPT !.heap = SetChildren(@, n, r.v)],
                 st.heap[n].data, r.v, st.heap[n].meta)

\* Transformer._transform_tree
Transformer_transform_tree_copy(self, st, n) ==
    LET tree == st.heap[n]
        r    == Transformer_transform_children(self, st, tree.children, 1, <<>>)
    IN  IF r.k # "ret" THEN r
        ELSE Transformer_call_userfunc(self, r.st, tree.data, r.v, tree.meta)

\* Transformer_InPlace._transform_tree
Transformer_InPlace_transform_tree(self, st, n) ==
    LET tree == st.heap[n]
    IN  Transformer_call_userfunc(self, st, tree.data, tree.children, tree.meta)

\* Transformer_InPlaceRecursive._transform_tree dispatching on the children
\* the tree had before the assignment.
Transformer_InPlaceRecursive_transform_tree_stale(self, st, n) ==
    LET r == Transformer_transform_children(
                 self, st, st.heap[n].children, 1, <<>>)
    IN  IF r.k # "ret" THEN r
        ELSE LET s1   == [r.st EXCEPT !.heap = SetChildren(@, n, r.v)]
                 tree == st.heap[n]
             IN  Transformer_call_userfunc(
                     self, s1, tree.data, tree.children, tree.meta)

\* Transformer_InPlaceRecursive._transform_tree
Transformer_InPlaceRecursive_transform_tree(self, st, n) ==
    LET r == Transformer_transform_children(
                 self, st, st.heap[n].children, 1, <<>>)
    IN  IF r.k # "ret" THEN r
        ELSE LET s1   == [r.st EXCEPT !.heap = SetChildren(@, n, r.v)]
                 tree == s1.heap[n]
             IN  Transformer_call_userfunc(
                     self, s1, tree.data, tree.children, tree.meta)

\* self._transform_tree(tree), resolved by the class of self
Transformer_transform_tree(self, st, n) ==
    CASE self.cls = "Transformer" ->
           Transformer_transform_tree_copy(self, st, n)
      [] self.cls = "Transformer_InPlace" ->
           Transformer_InPlace_transform_tree(self, st, n)
      [] self.cls = "Transformer_InPlaceRecursive" ->
           Transformer_InPlaceRecursive_transform_tree(self, st, n)

\* Transformer.transform catching the Discard of the root.
Transformer_transform_catching(self, st, n) ==
    LET r == Transformer_transform_tree(self, st, n)
    IN  IF r.k = "Discard" THEN Ret(r.st, None) ELSE r

\* Transformer.transform (inherited by Transformer_InPlaceRecursive)
Transformer_transform(self, st, n) == Transformer_transform_tree(self, st, n)

RECURSIVE Transformer_InPlace_loop(_, _, _, _)
\* The for loop of Transformer_InPlace.transform over the enumeration.
Transformer_InPlace_loop(self, st, subtrees, i) ==
    IF i > Len(subtrees) THEN Ret(st, <<>>)
    ELSE LET subtree == subtrees[i]
             r == Transformer_transform_children(
                      self, st, st.heap[subtree].children, 1, <<>>)
         IN  IF r.k # "ret" THEN r
             ELSE Transformer_InPlace_loop(
                      self, [r.st EXCEPT !.heap = SetChildren(@, subtree, r.v)],
                      subtrees, i + 1)

\* Transformer_InPlace.transform recursing into the root once more.
Transformer_InPlace_transform_recursing(self, st, n, subtrees) ==
    LET r == Transformer_InPlace_loop(self, st, subtrees, 1)
    IN  IF r.k # "ret" THEN r
        ELSE Transformer_transform_tree_copy(self, r.st, n)

\* Transformer_InPlace.transform; subtrees is what tree.iter_subtrees() yields.
Transformer_InPlace_transform(self, st, n, subtrees) ==
    LET r == Transformer_InPlace_loop(self, st, subtrees, 1)
    IN  IF r.k # "ret" THEN r
        ELSE Transformer_transform_tree(self, r.st, n)

(***************************************************************************)
(* TransformerChain.                                                       *)
(***************************************************************************)
\* TransformerChain.__init__
TransformerChain_init(transformers) ==
    [cls |-> "TransformerChain", handlers |-> {}, transformers |-> transformers]

\* Transformer.__mul__
Transformer_mul(self, other) == TransformerChain_init(<<self, other>>)

\* TransformerChain.__mul__ putting the new stage first.
TransformerChain_mul_prepending(self, other) ==
    [cls |-> "TransformerChain", handlers |-> {},
     transformers |-> <<other>> \o self.transformers]

\* TransformerChain.__mul__
TransformerChain_mul(self, other) ==
    TransformerChain_init(self.transformers \o <<other>>)

\* self * other, resolved by the class of self
Mul(self, other) ==
    IF self.cls = "TransformerChain" THEN TransformerChain_mul(self, other)
    ELSE Transformer_mul(self, other)

RECURSIVE Transform(_, _, _)
RECURSIVE TransformerChain_transform(_, _, _, _)

\* TransformerChain.transform: i is the position of the for loop and tree
\* the value the loop variable holds.
TransformerChain_transform(self, st, tree, i) ==
    IF i > Len(self.transformers) THEN Ret(st, tree)
    ELSE LET r == Transform(self.transformers[i], st, tree)
         IN  IF r.k # "ret" THEN r
             ELSE TransformerChain_transform(self, r.st, r.v, i + 1)

\* t.transform(tree) for a stage t of a chain: a chain, or a Transformer,
\* which reads tree.children and tree.data.
Transform(t, st, tree) ==
    IF t.cls = "TransformerChain" THEN TransformerChain_transform(t, st, tree, 1)
    ELSE IF ~IsTree(tree) THEN Raise(st, "AttributeError")
    ELSE Transformer_transform(t, st, tree.id)

(***************************************************************************)
(* Visitors.  The handlers of the holder class used here:                  *)
(*     def b(self, tree): return 'seen'                                    *)
(*     def c(self, tree): tree.children = []                               *)
(***************************************************************************)
VisitorHandlers == {"b", "c"}

\* VisitorBase.__default__
VisitorBase_default(st, n) == Ret(st, TreeRef(n))

\* f(tree) for the handler f named data
VisitorCallAttr(st, data, n) ==
    IF data = "b" THEN Ret(st, Term("seen", <<>>, 0))
    ELSE Ret([st EXCEPT !.heap = SetChildren(@, n, <<>>)], None)

\* VisitorBase._call_userfunc: getattr(self, tree.data, self.__default__)(tree)
VisitorBase_call_userfunc(self, st, n) ==
    LET tree == st.heap[n]
        r    == IF tree.data \in self.handlers
                THEN VisitorCallAttr(st, tree.data, n)
                ELSE VisitorBase_default(st, n)
        how  == IF tree.data \in self.handlers THEN tree.data ELSE "__default__"
    IN  [r EXCEPT !.st = Log(@, Call(tree.data, tree.children, n, how, Res(r)))]

RECURSIVE Visitor_loop(_, _, _, _)
\* The for loop of Visitor.visit over the enumeration.
Visitor_loop(self, st, subtrees, i) ==
    IF i > Len(subtrees) THEN Ret(st, None)
    ELSE LET r == VisitorBase_call_userfunc(self, st, subtrees[i])
         IN  IF r.k # "ret" THEN r
             ELSE Visitor_loop(self, r.st, subtrees, i + 1)

\* Visitor.visit; subtrees is what tree.iter_subtrees() yields.
Visitor_visit(self, st, n, subtrees) ==
    LET r == Visitor_loop(self, st, subtrees, 1)
    IN  IF r.k # "ret" THEN r ELSE Ret(r.st, TreeRef(n))

RECURSIVE Visitor_Recursive_visit(_, _, _)
RECURSIVE Visitor_Recursive_loop(_, _, _, _)

\* The for loop of Visitor_Recursive.visit over tree.children.
Visitor_Recursive_loop(self, st, children, i) ==
    IF i > Len(children) THEN Ret(st, None)
    ELSE IF IsTree(children[i])
    THEN LET r == Visitor_Recursive_visit(self, st, children[i].id)
         IN  IF r.k # "ret" THEN r
             ELSE Visitor_Recursive_loop(self, r.st, children, i + 1)
    ELSE Visitor_Recursive_loop(self, st, children, i + 1)

\* Visitor_Recursive.visit calling the handler before the children.
Visitor_Recursive_visit_preorder(self, st, n) ==
    LET f == VisitorBase_call_userfunc(self, st, n)
    IN  IF f.k # "ret" THEN f
        ELSE LET r == Visitor_Recursive_loop(self, f.st, st.heap[n].children, 1)
             IN  IF r.k # "ret" THEN r ELSE Ret(r.st, TreeRef(n))

\* Visitor_Recursive.visit
Visitor_Recursive_visit(self, st, n) ==
    LET r == Visitor_Recursive_loop(self, st, st.heap[n].children, 1)
    IN  IF r.k # "ret" THEN r
        ELSE LET f == VisitorBase_call_userfunc(self, r.st, n)
             IN  IF f.k # "ret" THEN f ELSE Ret(f.st, TreeRef(n))

(***************************************************************************)
(* Interpreter.  The handlers of the holder class used here:               *)
(*     def b(self, tree): return self.visit_children(tree)[0]              *)
(*     def c(self, tree): return 'c'                                       *)
(*     @visit_children_decor                                               *)
(*     def m(self, values): return ('m', values)                           *)
(***************************************************************************)
InterpreterHandlers == {"b", "c", "m"}

RECURSIVE Interpreter_visit(_, _, _)
RECURSIVE Interpreter_visit_children_loop(_, _, _, _, _)

\* Interpreter.visit_children visiting the first child only.
Interpreter_visit_children_loop_lazy(self, st, children, i, acc) ==
    IF i > Len(children) THEN Ret(st, acc)
    ELSE IF IsTree(children[i]) /\ i = 1
    THEN LET r == Interpreter_visit(self, st, children[i].id)
         IN  IF r.k # "ret" THEN r
             ELSE Interpreter_visit_children_loop(
                      self, r.st, children, i + 1, Append(acc, r.v))
    ELSE Interpreter_visit_children_loop(
             self, st, children, i + 1, Append(acc, children[i]))

\* The list comprehension of Interpreter.visit_children.
Interpreter_visit_children_loop(self, st, children, i, acc) ==
    IF i > Len(children) THEN Ret(st, acc)
    ELSE IF IsTree(children[i])
    THEN LET r == Interpreter_visit(self, st, children[i].id)
         IN  IF r.k # "ret" THEN r
             ELSE Interpreter_visit_children_loop(
                      self, r.st, children, i + 1, Append(acc, r.v))
    ELSE Interpreter_visit_children_loop(
             self, st, children, i + 1, Append(acc, children[i]))

\* Interpreter.visit_children
Interpreter_visit_children(self, st, n) ==
    Interpreter_visit_children_loop(self, st, st.heap[n].children, 1, <<>>)

\* Interpreter.__default__
Interpreter_default(self, st, n) ==
    LET r == Interpreter_visit_children(self, st, n)
    IN  IF r.k # "ret" THEN r ELSE Ret(r.st, List(r.v))

\* visit_children_decor(func): inner(cls, tree)
visit_children_decor(self, st, data, n) ==
    LET values == Interpreter_visit_children(self, st, n)
    IN  IF values.k # "ret" THEN values
        ELSE Ret(values.st, Term(data, values.v, 0))

\* f(tree) for the handler f named data
InterpreterCallAttr(self, st, data, n) ==
    CASE data = "b" ->
           LET r == Interpreter_visit_children(self, st, n)
           IN  IF r.k # "ret" THEN r
               ELSE IF r.v = <<>> THEN Raise(r.st, "IndexError")
               ELSE Ret(r.st, r.v[1])
      [] data = "c" -> Ret(st, Term("c", <<>>, 0))
      [] OTHER -> visit_children_decor(self, st, data, n)

\* Interpreter.visit: getattr(self, tree.data)(tree), with __getattr__
\* answering __default__ for a name that is no attribute.
Interpreter_visit(self, st, n) ==
    LET tree == st.heap[n]
    IN  IF tree.data \in self.handlers
        THEN InterpreterCallAttr(
                 self,
                 Log(st, Call(tree.data, tree.children, n, tree.data, Pending)),
                 tree.data, n)
        ELSE Interpreter_default(
                 self,
                 Log(st, Call(tree.data, tree.children, n, "__default__", Pending)),
                 n)

(***************************************************************************)
(* The class-level decorator.  klass.dict[c][name] is the entry of name in *)
(* the __dict__ of class c: the class whose body defined the function, how *)
(* many times it has been wrapped and the flags of the outermost wrapper.  *)
(* Names are sequences of characters.                                      *)
(***************************************************************************)
Foo == <<"f", "o", "o">>

Bar == <<"b", "a", "r">>

Priv == <<"_", "p">>

Names == {Foo, Bar, Priv}

\* class Base(Transformer), class Sub(Base)
Classes == {"Base", "Sub"}

Absent == [def |-> "", wraps |-> 0, inline |-> FALSE, meta |-> FALSE]

Function(c) == [def |-> c, wraps |-> 0, inline |-> FALSE, meta |-> FALSE]

\* inspect.getmro(cls), without the framework's own classes
getmro(c) == IF c = "Sub" THEN <<"Sub", "Base">> ELSE <<"Base">>

\* The names inspect.getmembers(c) lists among Names.
getmembers(k, c) ==
    {name \in Names :
        \E q \in 1..Len(getmro(c)) : k.dict[getmro(c)[q]][name] # Absent}

\* getattr(c, name): the entry of the first class of the MRO that has one.
getattr(k, c, name) ==
    LET mro == getmro(c)
        q   == CHOOSE j \in 1..Len(mro) :
                  /\ k.dict[mro[j]][name] # Absent
                  /\ \A i \in 1..(j - 1) : k.dict[mro[i]][name] = Absent
    IN  k.dict[mro[q]][name]

\* name.startswith('_')
startswith_underscore(name) == name[1] = "_"

\* _visitor_args_func_dec(func, inline, meta): a wrapper carrying the flags
visitor_args_func_dec(func, inline, meta) ==
    [func EXCEPT !.wraps = @ + 1, !.inline = inline, !.meta = meta]

\* libmembers of Transformer._apply_decorator
libmembers(k, c) ==
    UNION {getmembers(k, getmro(c)[q]) : q \in 2..Len(getmro(c))}

\* The names Transformer._apply_decorator passes to the decorator.
decorated_names(k, c) ==
    {name \in getmembers(k, c) :
        ~(startswith_underscore(name) \/ name \in libmembers(k, c))}

\* Transformer._apply_decorator(cls, decorator, **kwargs)
Transformer_apply_decorator(k, c, inline, meta) ==
    [k EXCEPT
       !.dict[c] = [name \in Names |->
                       IF name \in decorated_names(k, c)
                       THEN visitor_args_func_dec(getattr(k, c, name), inline, meta)
                       ELSE @[name]],
       !.decorated = Append(@, c)]

NoClasses ==
    [dict |-> [c \in Classes |-> [name \in Names |-> Absent]], decorated |-> <<>>]

(***************************************************************************)
(* Input trees.  The caller builds a tree item by item in preorder: each   *)
(* new item, a Tree with a tag or a leaf, becomes the last child of a Tree *)
(* on the rightmost path.  Object 1 is the root; every Tree carries its    *)
(* own metadata object, named by the number of the Tree.                   *)
(***************************************************************************)
Tags == {"a", "b", "c", "m", "i", "transform"}

Root == 1

RECURSIVE Subtrees(_, _)
\* The Tree objects reachable from Tree n in heap h.
Subtrees(h, n) ==
    {n} \cup UNION {Subtrees(h, h[n].children[q].id) :
                      q \in {j \in 1..Len(h[n].children) : IsTree(h[n].children[j])}}

RECURSIVE RightPath(_, _)
RightPath(h, n) ==
    LET cs == h[n].children
    IN  {n} \cup (IF cs # <<>> /\ IsTree(cs[Len(cs)])
                  THEN RightPath(h, cs[Len(cs)].id) ELSE {})

RECURSIVE NumItems(_, _)
\* The number of items (Trees and leaves) of the tree at n.
NumItems(h, n) ==
    LET cs == h[n].children
        cnt[q \in 0..Len(cs)] ==
            IF q = 0 THEN 1
            ELSE cnt[q - 1] + (IF IsTree(cs[q]) THEN NumItems(h, cs[q].id) ELSE 1)
    IN  cnt[Len(cs)]

RECURSIVE Orders(_, _)
\* The sequences that list the Trees of todo once each, every Tree after
\* the Trees among its children.
Orders(h, todo) ==
    IF todo = {} THEN {<<>>}
    ELSE UNION {
           {<<x>> \o s : s \in Orders(h, todo \ {x})} :
           x \in {y \in todo :
                    \A q \in 1..Len(h[y].children) :
                        ~(IsTree(h[y].children[q]) /\ h[y].children[q].id \in todo)}}

\* tree.iter_subtrees(): an enumeration of every Tree reachable from the
\* root, deepest first.  Any such enumeration may be the one produced.
iter_subtrees(h, n) == Orders(h, Subtrees(h, n))

\* The tags of the Trees of heap h.
TagsOf(h) == {h[n].data : n \in DOMAIN h}

\* The structure a value denotes in heap h: equal exactly for value-equal
\* objects with the same metadata.
RECURSIVE Val(_, _)
Val(h, v) ==
    IF IsTree(v)
    THEN LET tree == h[v.id]
         IN  [k    |-> "tree", data |-> tree.data, meta |-> tree.meta,
              args |-> [q \in 1..Len(tree.children) |-> Val(h, tree.children[q])]]
    ELSE [k    |-> v.k, data |-> v.f, meta |-> v.id,
          args |-> [q \in 1..Len(v.args) |-> Val(h, v.args[q])]]

(***************************************************************************)
(* The state: the heap, the input as it was built (orig), the dispatches   *)
(* made so far, the outcome of the call, the call made and the classes of  *)
(* handlers.                                                               *)
(***************************************************************************)
\* A call of an entry point: its name, the object it is called on and
\* what else it is given (the enumeration of subtrees, the transformers a
\* chain was built from).
MkCall(name, self, aux) == [name |-> name, self |-> self, aux |-> aux]

NoCall == MkCall("none", Holder("none", {}), <<>>)

\* Tree(d, []), the root, with a tag among tags.
Construct(tags) ==
    /\ \E d \in tags :
         heap = Alloc(<<>>, Root, d, <<>>, Root)
    /\ orig = heap
    /\ calls = <<>>
    /\ out = Pending
    /\ op = NoCall
    /\ klass = NoClasses

\* Tree(d, []) or a leaf appended to the children of Tree p, before any call.
Append_child(tags, max) ==
    /\ op = NoCall
    /\ NumItems(heap, Root) < max
    /\ \E p \in RightPath(heap, Root), d \in tags \cup {"tok"} :
         LET j == NumItems(heap, Root) + 1
         IN  heap' = IF d = "tok"
                     THEN SetChildren(heap, p, Append(heap[p].children, Leaf(j)))
                     ELSE SetChildren(Alloc(heap, j, d, <<>>, j), p,
                                      Append(heap[p].children, TreeRef(j)))
    /\ orig' = heap'
    /\ UNCHANGED <<calls, out, op, klass>>

St == [heap |-> heap, calls |-> calls]

\* The effect of a finished call on the state.
Finish(r, call) ==
    /\ heap' = r.st.heap
    /\ calls' = r.st.calls
    /\ out' = Res(r)
    /\ op' = call
    /\ UNCHANGED <<orig, klass>>

TransformerHolders == {NoHandlers, UserHandlers, RenameHandlers}

\* The tags of the trees a holder is run on: all of them for the holder
\* with the most handlers, and for the others a tag it handles or not, a
\* tag without handler and a name of the framework.
InputTags(hs) == IF hs = UserHandlers THEN Tags ELSE {"a", "b", "transform"}

\* The tags of the trees the in-place transform is run on.
InPlaceTags == {"a", "b", "c", "i"}

\* Transformer().transform(tree)
CallTransformer ==
    /\ op = NoCall
    /\ \E hs \in TransformerHolders :
         /\ TagsOf(heap) \subseteq InputTags(hs)
         /\ LET self == Holder("Transformer", hs)
            IN  Finish(Transformer_transform(self, St, Root),
                       MkCall("Transformer.transform", self, <<>>))

\* Transformer_InPlace().transform(tree)
CallInPlace ==
    /\ op = NoCall
    /\ \E hs \in TransformerHolders, subtrees \in iter_subtrees(heap, Root) :
         /\ TagsOf(heap) \subseteq InputTags(hs) \cap InPlaceTags
         /\ LET self == Holder("Transformer_InPlace", hs)
            IN  Finish(Transformer_InPlace_transform(self, St, Root, subtrees),
                       MkCall("Transformer_InPlace.transform", self, subtrees))

\* Transformer_InPlaceRecursive().transform(tree)
CallInPlaceRecursive ==
    /\ op = NoCall
    /\ \E hs \in TransformerHolders :
         /\ TagsOf(heap) \subseteq InputTags(hs)
         /\ LET self == Holder("Transformer_InPlaceRecursive", hs)
            IN  Finish(Transformer_transform(self, St, Root),
                       MkCall("Transformer_InPlaceRecursive.transform", self, <<>>))

\* The sequences of 1..MaxChain transformers a chain is built from.
Stages ==
    UNION {[1..n -> {Holder("Transformer", hs) : hs \in {UserHandlers, RenameHandlers}}] :
             n \in 1..MaxChain}

RECURSIVE Products(_)
\* What the compose operator builds from ts in some grouping.
Products(ts) ==
    IF Len(ts) = 1 THEN {ts[1]}
    ELSE UNION {
           {Mul(l, r) : l \in Products(SubSeq(ts, 1, q)),
                        r \in Products(SubSeq(ts, q + 1, Len(ts)))} :
           q \in 1..(Len(ts) - 1)}

\* The chains built from ts: by the constructor, or by * in any grouping.
Chains(ts) ==
    {TransformerChain_init(ts)} \cup (IF Len(ts) > 1 THEN Products(ts) ELSE {})

\* The tags of the trees the chains are run on.
ChainTags == {"a", "b", "c"}

\* chain.transform(tree)
CallChain ==
    /\ op = NoCall
    /\ \E ts \in Stages :
         \E chain \in Chains(ts) :
            Finish(TransformerChain_transform(chain, St, TreeRef(Root), 1),
                   MkCall("TransformerChain.transform", chain, ts))

\* The tags of the trees the visitors are run on; none names an attribute
\* of the Visitor classes.
VisitorTags == {"a", "b", "c"}

\* Visitor().visit(tree)
CallVisitor ==
    /\ op = NoCall
    /\ \E subtrees \in iter_subtrees(heap, Root) :
         LET self == Holder("Visitor", VisitorHandlers)
         IN  Finish(Visitor_visit(self, St, Root, subtrees),
                    MkCall("Visitor.visit", self, subtrees))

\* Visitor_Recursive().visit(tree)
CallVisitorRecursive ==
    /\ op = NoCall
    /\ LET self == Holder("Visitor_Recursive", VisitorHandlers)
       IN  Finish(Visitor_Recursive_visit(self, St, Root),
                  MkCall("Visitor_Recursive.visit", self, <<>>))

\* The tags of the trees the interpreter is run on; none names an attribute
\* of the Interpreter class.
InterpreterTags == {"a", "b", "c", "m"}

\* Interpreter().visit(tree)
CallInterpreter ==
    /\ op = NoCall
    /\ LET self == Holder("Interpreter", InterpreterHandlers)
       IN  Finish(Interpreter_visit(self, St, Root),
                  MkCall("Interpreter.visit", self, <<>>))

\* def name(self, ...) in the body of class c.  Base is complete, and
\* decorated if at all, before the body of Sub runs.
DefineMethod ==
    /\ \E c \in Classes, name \in Names :
         /\ klass.dict[c][name] = Absent
         /\ \A q \in 1..Len(klass.decorated) : klass.decorated[q] # c
         /\ c = "Base" => /\ klass.decorated = <<>>
                          /\ klass.dict["Sub"] = NoClasses.dict["Sub"]
         /\ klass' = [klass EXCEPT !.dict[c][name] = Function(c)]
    /\ UNCHANGED <<heap, orig, calls, out, op>>

\* @visitor_args(inline=.., meta=..) on class c
ApplyDecorator ==
    /\ \E c \in Classes, inline \in BOOLEAN, meta \in BOOLEAN :
         /\ \A q \in 1..Len(klass.decorated) : klass.decorated[q] # c
         /\ c = "Base" => klass.dict["Sub"] = NoClasses.dict["Sub"]
         /\ IF inline /\ meta
            THEN /\ out' = [k |-> "error", v |-> Exc("ValueError")]
                 /\ UNCHANGED klass
            ELSE /\ out' = [k |-> "ret", v |-> None]
                 /\ klass' = Transformer_apply_decorator(klass, c, inline, meta)
         /\ op' = MkCall("visitor_args", Holder(c, {}), <<>>)
    /\ UNCHANGED <<heap, orig, calls>>

(***************************************************************************)
(* What the log says about a Tree of the input.  Every Tree of the input   *)
(* carries its own metadata, so a dispatch with metadata n is a dispatch   *)
(* of Tree n.                                                              *)
(***************************************************************************)
Dispatches(n) == {q \in 1..Len(calls) : calls[q].meta = n}

At(n) == calls[CHOOSE q \in Dispatches(n) : TRUE]

TreeChildren(n) ==
    {orig[n].children[q].id :
        q \in {j \in 1..Len(orig[n].children) : IsTree(orig[n].children[j])}}

\* Every Tree child of n was dispatched and returned a value or raised Discard.
Settled(n) ==
    \A c \in TreeChildren(n) :
        Dispatches(c) # {} /\ At(c).res.k \in {"ret", "Discard"}

\* The children of n with every Tree replaced by the value its dispatch
\* returned, or left out when its dispatch raised Discard.
Reduced(n) ==
    LET cs == orig[n].children
        red[q \in 0..Len(cs)] ==
            IF q = 0 THEN <<>>
            ELSE IF ~IsTree(cs[q]) THEN Append(red[q - 1], cs[q])
            ELSE IF At(cs[q].id).res.k = "ret"
            THEN Append(red[q - 1], At(cs[q].id).res.v)
            ELSE red[q - 1]
    IN  red[Len(cs)]

Discarding(n) == {c \in TreeChildren(n) : Dispatches(c) # {} /\ At(c).res.k = "Discard"}

TransformNames ==
    {"Transformer.transform", "Transformer_InPlace.transform",
     "Transformer_InPlaceRecursive.transform"}

(***************************************************************************)
(* C1: in Transformer.transform a child whose reduction raises Discard is  *)
(* left out of what its parent's handler is given: the handler receives    *)
(* exactly the values of the other children and the leaves, in their       *)
(* original order, and it is invoked (once) whenever no child's reduction  *)
(* ends in another exception.                                              *)
(***************************************************************************)
C1_DiscardedChildOmitted ==
    op.name = "Transformer.transform" =>
        \A n \in DOMAIN orig :
            /\ Dispatches(n) # {} =>
                   Settled(n) /\ At(n).children = Reduced(n)
            /\ Discarding(n) # {} /\ Settled(n) =>
                   Cardinality(Dispatches(n)) = 1

\* A parent with three Tree children of which the middle one was discarded.
C1_Witness ==
    /\ op.name = "Transformer.transform"
    /\ \E n \in DOMAIN orig :
         /\ Len(orig[n].children) = 3
         /\ \A q \in 1..3 : IsTree(orig[n].children[q])
         /\ Discarding(n) = {orig[n].children[2].id}
         /\ Dispatches(n) # {}
         /\ Len(At(n).children) = 2

(***************************************************************************)
(* C7: Transformer.transform leaves every Tree of its input as it was:    *)
(* same tag, same children, same metadata, however the call ends.          *)
(***************************************************************************)
C7_InputNotMutated ==
    op.name = "Transformer.transform" =>
        \A n \in DOMAIN orig : n \in DOMAIN heap /\ heap[n] = orig[n]

\* A call that built new Trees from a tree with a discarded child.
C7_Witness ==
    /\ op.name = "Transformer.transform"
    /\ DOMAIN heap # DOMAIN orig
    /\ \E n \in DOMAIN orig : Discarding(n) # {} /\ Dispatches(n) # {}

(***************************************************************************)
(* C8: a transform ends by raising Discard exactly when the handler of   *)
(* the root raised it; Discard raised for any other Tree never reaches the *)
(* caller.                                                                 *)
(***************************************************************************)
C8_RootDiscardPropagates ==
    op.name \in TransformNames =>
        (out.k = "Discard" <=>
            Dispatches(Root) # {} /\ At(Root).res.k = "Discard")

\* An in-place call where the root and one of its children raised Discard.
C8_Witness ==
    /\ op.name = "Transformer_InPlace.transform"
    /\ out.k = "Discard"
    /\ Discarding(Root) # {}

(***************************************************************************)
(* C3: with no Discard raised, Transformer_InPlaceRecursive.transform ends *)
(* as Transformer.transform with the same handlers ends on the same tree:  *)
(* value-equal results, or the same exception; and when it returns, every  *)
(* Tree of the input holds the reduced values as its children.             *)
(***************************************************************************)
NoDiscard == \A q \in 1..Len(calls) : calls[q].res.k # "Discard"

\* Transformer.transform with handlers hs on the tree as it was given.
CopyResult(hs) ==
    Transformer_transform(
        Holder("Transformer", hs), [heap |-> orig, calls |-> <<>>], Root)

C3_InPlaceRecursiveEqualsCopy ==
    op.name = "Transformer_InPlaceRecursive.transform" /\ NoDiscard =>
        LET cp == CopyResult(op.self.handlers)
        IN  /\ out.k = cp.k
            /\ out.k = "error" => out.v = cp.v
            /\ out.k = "ret" =>
                 /\ Val(heap, out.v) = Val(cp.st.heap, cp.v)
                 /\ \A n \in DOMAIN orig :
                      /\ heap[n].children = Reduced(n)
                      /\ heap[n].data = orig[n].data
                      /\ heap[n].meta = orig[n].meta

\* A returned call on a tree of three levels whose Trees all changed.
C3_Witness ==
    /\ op.name = "Transformer_InPlaceRecursive.transform"
    /\ NoDiscard
    /\ out.k = "ret"
    /\ \E n \in DOMAIN orig :
         /\ n # Root
         /\ TreeChildren(n) # {}
         /\ heap[n].children # orig[n].children
         /\ heap[Root].children # orig[Root].children

(***************************************************************************)
(* C9: over an enumeration that lists every Tree once, children before     *)
(* parents, Transformer_InPlace.transform dispatches no Tree twice and     *)
(* nothing but the Trees of the input; a Tree is dispatched after its Tree *)
(* children, on their results; and a call that ends without an error has   *)
(* dispatched every Tree once, the root last, and ends as the root's       *)
(* handler ended.                                                          *)
(***************************************************************************)
C9_InPlaceDispatchesOnceInOrder ==
    op.name = "Transformer_InPlace.transform" =>
        /\ \A q \in 1..Len(calls) : calls[q].meta \in DOMAIN orig
        /\ \A n \in DOMAIN orig :
             /\ Cardinality(Dispatches(n)) <= 1
             /\ Dispatches(n) # {} =>
                  /\ Settled(n)
                  /\ At(n).children = Reduced(n)
                  /\ \A c \in TreeChildren(n) :
                       \A q \in Dispatches(c), r \in Dispatches(n) : q < r
        /\ out.k \in {"ret", "Discard"} =>
             /\ \A n \in DOMAIN orig : Cardinality(Dispatches(n)) = 1
             /\ calls[Len(calls)].meta = Root
             /\ out = At(Root).res

\* A returned call on a tree with a grandchild and a discarded Tree.
C9_Witness ==
    /\ op.name = "Transformer_InPlace.transform"
    /\ out.k = "ret"
    /\ Len(calls) = Cardinality(DOMAIN orig)
    /\ \E n \in DOMAIN orig : n # Root /\ TreeChildren(n) # {}
    /\ \E n \in DOMAIN orig : Discarding(n) # {}

(***************************************************************************)
(* C2: Transformer.transform of a holder without handlers returns a tree   *)
(* identical to its input: the same tags, children and metadata.           *)
(***************************************************************************)
C2_NoHandlersRebuildsTree ==
    op.name = "Transformer.transform" /\ op.self.handlers = NoHandlers =>
        /\ out.k = "ret"
        /\ IsTree(out.v)
        /\ Val(heap, out.v) = Val(orig, TreeRef(Root))

(***************************************************************************)
(* C4, as claimed: when the handler of X calls visit_children and returns  *)
(* only the result for Y, the first of its two Tree children [Y, Z], the   *)
(* handler of Z is never invoked.                                          *)
(***************************************************************************)
\* The Trees dispatched to the handler that returns visit_children(tree)[0]
\* and that have exactly two children, both Trees.
FirstOfTwo ==
    {x \in DOMAIN orig :
        /\ orig[x].data = "b"
        /\ Dispatches(x) # {}
        /\ Len(orig[x].children) = 2
        /\ IsTree(orig[x].children[1]) /\ IsTree(orig[x].children[2])}

C4_SecondChildNeverVisited ==
    op.name = "Interpreter.visit" =>
        \A x \in FirstOfTwo : Dispatches(orig[x].children[2].id) = {}

(***************************************************************************)
(* C4, amended: in a visit that returns, the handlers of both Y and Z are  *)
(* invoked once, Y's before Z's, after X's; the Tree children of a Tree    *)
(* whose handler does not call visit_children are never dispatched.        *)
(***************************************************************************)
C4_VisitChildrenVisitsEveryChild ==
    op.name = "Interpreter.visit" /\ out.k = "ret" =>
        /\ \A x \in FirstOfTwo :
             LET y == orig[x].children[1].id
                 z == orig[x].children[2].id
             IN  /\ Cardinality(Dispatches(y)) = 1
                 /\ Cardinality(Dispatches(z)) = 1
                 /\ \A q \in Dispatches(x), r \in Dispatches(y), t \in Dispatches(z) :
                      q < r /\ r < t
        /\ \A x \in DOMAIN orig :
             orig[x].data = "c" => \A c \in TreeChildren(x) : Dispatches(c) = {}

\* X returned Y's result and Z's handler ran.
C4_Witness ==
    /\ op.name = "Interpreter.visit"
    /\ out.k = "ret"
    /\ Root \in FirstOfTwo
    /\ Dispatches(orig[Root].children[2].id) # {}
    /\ orig[orig[Root].children[2].id].data = "c"

(***************************************************************************)
(* C5: a chain built from t1..tn, by the constructor or by * in any        *)
(* grouping, ends as tn.transform(...t1.transform(T)) ends: the same value *)
(* or exception, after the same dispatches in the same order.              *)
(***************************************************************************)
RECURSIVE Nested(_, _)
\* ts[i].transform(...ts[1].transform(T)) on the tree as it was given
Nested(ts, i) ==
    IF i = 0 THEN Ret([heap |-> orig, calls |-> <<>>], TreeRef(Root))
    ELSE LET r == Nested(ts, i - 1)
         IN  IF r.k # "ret" THEN r
             ELSE IF ~IsTree(r.v) THEN Raise(r.st, "AttributeError")
             ELSE Transformer_transform(ts[i], r.st, r.v.id)

C5_ChainIsNestedApplication ==
    op.name = "TransformerChain.transform" =>
        LET r == Nested(op.aux, Len(op.aux))
        IN  /\ out = Res(r)
            /\ heap = r.st.heap
            /\ calls = r.st.calls

\* (t1 * t2) * t3 with t1 # t3, run to the end on a tree with a child.
C5_Witness ==
    /\ op.name = "TransformerChain.transform"
    /\ Len(op.aux) = 3
    /\ op.aux[1] # op.aux[3]
    /\ op.self = TransformerChain_mul(Transformer_mul(op.aux[1], op.aux[2]), op.aux[3])
    /\ out.k = "ret"
    /\ TreeChildren(Root) # {}

(***************************************************************************)
(* C6: the class-level decorator wraps exactly the functions the class     *)
(* defines itself under a name that does not start with '_', overrides of  *)
(* an ancestor's method included, each once, and nothing inherited.        *)
(***************************************************************************)
C6_WrapsOwnMethods ==
    op.name = "visitor_args" /\ out.k = "ret" =>
        LET c == op.self.cls
        IN  \A name \in Names :
               /\ klass.dict[c][name].wraps > 0 <=>
                      klass.dict[c][name].def = c /\ ~startswith_underscore(name)
               /\ klass.dict[c][name].wraps <= 1

(***************************************************************************)
(* C10: Visitor.visit and Visitor_Recursive.visit invoke the handler of    *)
(* the tag, or the default, once on every Tree of the input and on nothing *)
(* else, on a Tree after all its descendants, and return the root; the     *)
(* iterative visit leaves the tree as the recursive visit leaves it, after *)
(* the same invocations.                                                   *)
(***************************************************************************)
VisitNames == {"Visitor.visit", "Visitor_Recursive.visit"}

Range(seq) == {seq[q] : q \in 1..Len(seq)}

Init == Construct(Tags)

AddChild == Append_child(Tags, MaxNodes)

Next ==
    \/ AddChild
    \/ CallTransformer
    \/ CallInPlace
    \/ CallInPlaceRecursive

\* The three transforms, on trees with any tags.
Spec == Init /\ [][Next]_vars

InitChain == Construct(ChainTags)

AddChildChain == Append_child(ChainTags, MaxChainNodes)

NextChain == AddChildChain \/ CallChain

\* Chains of transformers.
SpecChain == InitChain /\ [][NextChain]_vars

InitVisitor == Construct(VisitorTags)

AddChildVisitor == Append_child(VisitorTags, MaxNodes)

NextVisitor == AddChildVisitor \/ CallVisitor \/ CallVisitorRecursive

\* The two bottom-up visitors.
SpecVisitor == InitVisitor /\ [][NextVisitor]_vars

InitInterpreter == Construct(InterpreterTags)

AddChildInterpreter == Append_child(InterpreterTags, MaxNodes)

NextInterpreter == AddChildInterpreter \/ CallInterpreter

\* The top-down interpreter.
SpecInterpreter == InitInterpreter /\ [][NextInterpreter]_vars

InitDecorator == Construct({"a"})

NextDecorator == DefineMethod \/ ApplyDecorator

\* Classes of handlers and the class-level decorator.
SpecDecorator == InitDecorator /\ [][NextDecorator]_vars

====
